---- MODULE Spec2Model ----
(***************************************************************************)
(* State-machine model of fleet-update.js: the rate-limited API client     *)
(* (apiRequest, rotateKey), the per-date crawl (fetchFlightsForDate), the  *)
(* extractor and schema transformer, the reconciler (detectChanges,        *)
(* mergeAircraft) and the crawl driver with its final save (main).         *)
(*                                                                         *)
(* JavaScript values that may be null are modelled as options: Null is the *)
(* empty tuple and a present value v is the one-element tuple <<v>>.       *)
(* Dates (YYYY-MM-DD strings, compared and ordered as such by the code)    *)
(* are modelled as day numbers.  The code between two awaits runs to       *)
(* completion, so an action covers one HTTP attempt and all the code that  *)
(* runs on its response; SpecThrottle alone splits it into the sending of  *)
(* the request and the arrival of its response.  Time is kept relative to  *)
(* lastRequestTime, in ms.  The request counter totalRequests, which is    *)
(* only printed, is left out.                                              *)
(*                                                                         *)
(* Specifications: Spec (one run, the API may answer anything, the catalog *)
(* file absent or written by an earlier run), SpecReliable (runs from no   *)
(* file, the API always answers), SpecHistory (many single-day runs, one   *)
(* registration), SpecFetch (single-day runs with long crawls),            *)
(* SpecThrottle (one run with response times and late timers),             *)
(* SpecTransform (one observation with any combination of fields),         *)
(* SpecStale (one run on a catalog of records last seen long ago),         *)
(* SpecWindow (one bootstrap run over a window of days) and SpecPreview (a *)
(* dry run followed by the same run without --dry-run).                    *)
(***************************************************************************)
EXTENDS Integers, Sequences, FiniteSets, TLC

(***************************************************************************)
(* Bounds of the model.                                                    *)
(***************************************************************************)
\* runs of the script (process invocations) in Spec
MaxRuns == 1
\* runs in SpecReliable
MaxReliableRuns == 2
\* runs in SpecHistory
MaxHistoryRuns == 4
\* runs in SpecFetch
MaxFetchRuns == 1
\* latest calendar day (today never exceeds it; --date may name any day up to it)
MaxDay == 2
\* largest --days argument of a bootstrap run
MaxBootstrapDays == 2
\* largest number of configured API keys
MaxKeys == 2
\* largest number of configured API keys in SpecFetch
MaxFetchKeys == 3
\* largest totalPages an API page reports in Spec
MaxTotalPages == 2
\* runs in SpecStale
MaxStaleRuns == 1
\* runs in SpecPreview (the first is the dry run)
MaxPreviewRuns == 2
\* the days the API has flights for in SpecPreview, and the day of its runs
MaxPreviewDays == 2
\* runs in SpecWindow
MaxWindowRuns == 1
\* largest --days argument in SpecWindow, and the day of its runs
MaxWindowDays == 3
\* the day of the runs whose catalog holds records last seen long ago
StaleToday == 41
\* the time of day at which the runs of the specifications that do not vary it
\* reach the stale block
NoonHour == 12
\* SpecThrottle: runs, days of a bootstrap, API keys, and the ms a timer may
\* fire late
MaxThrottleRuns == 1
MaxThrottleDays == 2
MaxThrottleKeys == 3
TimerSlack == 40

(***************************************************************************)
(* Program constants.                                                      *)
(***************************************************************************)
\* fetchFlightsForDate: if (pageNumber > 100) break
PageCap == 100

\* CONFIG.requestDelay: 5000, in ms
RequestDelay == 5000

\* apiRequest, before a retry: setTimeout(r, 1000)
RetryDelay == 1000

Null == <<>>
Some(v) == <<v>>
\* JS truthiness of an optional string: null/undefined and "" are falsy
Truthy(o) == o # Null /\ o # Some("")
\* x || null
OrNull(o) == IF Truthy(o) THEN o ELSE Null
\* template-literal conversion `${v}` of an optional string
Str(o) == IF o = Null THEN "null" ELSE o[1]

AirlineCode == "AF"

RECURSIVE SeqSum(_)
SeqSum(s) == IF s = <<>> THEN 0 ELSE s[1] + SeqSum(Tail(s))

(***************************************************************************)
(* Schema transformer                                                      *)
(***************************************************************************)
Letters == {"P", "F", "J", "C", "W", "S", "Y", "M"}
Digits == {"0", "1", "2", "3", "4", "5", "6", "7", "8", "9"}
DigitVal(c) ==
  CASE c = "0" -> 0 [] c = "1" -> 1 [] c = "2" -> 2 [] c = "3" -> 3 [] c = "4" -> 4
    [] c = "5" -> 5 [] c = "6" -> 6 [] c = "7" -> 7 [] c = "8" -> 8 [] c = "9" -> 9

\* parseInt(digits, 10) of a run of decimal digits
RECURSIVE ParseInt(_)
ParseInt(ds) ==
  IF ds = <<>> THEN 0
  ELSE 10 * ParseInt(SubSeq(ds, 1, Len(ds) - 1)) + DigitVal(ds[Len(ds)])

\* a plausible slip: C is taken for a premium economy letter
mutClassOf(letter) ==
  CASE letter \in {"P", "F"} -> "first"
    [] letter \in {"J"} -> "business"
    [] letter \in {"C", "W", "S"} -> "premium_economy"
    [] letter \in {"Y", "M"} -> "economy"

\* mapping = { P: 'first', F: 'first', J: 'business', ... }
ClassOf(letter) ==
  CASE letter \in {"P", "F"} -> "first"
    [] letter \in {"J", "C"} -> "business"
    [] letter \in {"W", "S"} -> "premium_economy"
    [] letter \in {"Y", "M"} -> "economy"

ZeroClasses == [first |-> 0, business |-> 0, premium_economy |-> 0, economy |-> 0]

\* number of digits the greedy \d{2,3} consumes at position i (0: no match there)
DigitRun(cs, i) ==
  IF i + 2 <= Len(cs) /\ cs[i + 1] \in Digits /\ cs[i + 2] \in Digits
  THEN IF i + 3 <= Len(cs) /\ cs[i + 3] \in Digits THEN 3 ELSE 2
  ELSE 0

\* the while (regex.exec(config)) loop of /([PFJCWSYM])(\d{2,3})/g over the
\* characters cs, scanning from position i with the running class counts acc
RECURSIVE ScanCabin(_, _, _)
ScanCabin(cs, i, acc) ==
  IF i > Len(cs) THEN acc
  ELSE IF cs[i] \in Letters /\ DigitRun(cs, i) > 0
       THEN LET n == DigitRun(cs, i)
                k == ClassOf(cs[i])
            IN ScanCabin(cs, i + 1 + n,
                         [acc EXCEPT ![k] = @ + ParseInt(SubSeq(cs, i + 1, i + n))])
       ELSE ScanCabin(cs, i + 1, acc)

\* parseCabinConfig on the characters of the configuration (Null: no string)
ParseCabinChars(ocs) ==
  IF ocs = Null \/ ocs = Some(<<>>) THEN ZeroClasses ELSE ScanCabin(ocs[1], 1, ZeroClasses)

\* the characters of the configuration strings the modelled API sends
Chars(s) ==
  CASE s = "Y148" -> <<"Y", "1", "4", "8">>
    [] s = "J034W024Y266" ->
         <<"J", "0", "3", "4", "W", "0", "2", "4", "Y", "2", "6", "6">>
    [] s = "Y266J034W024" ->
         <<"Y", "2", "6", "6", "J", "0", "3", "4", "W", "0", "2", "4">>
    [] s = "F04C40S24M300" ->
         <<"F", "0", "4", "C", "4", "0", "S", "2", "4", "M", "3", "0", "0">>
    [] s = "J20P04J14Y100" ->
         <<"J", "2", "0", "P", "0", "4", "J", "1", "4", "Y", "1", "0", "0">>
    [] s = "A12Y100" ->
         <<"A", "1", "2", "Y", "1", "0", "0">>
    [] s = "Y00" ->
         <<"Y", "0", "0">>
    [] s = "TBD" ->
         <<"T", "B", "D">>
    [] s = "Y1" ->
         <<"Y", "1">>
    [] s = "y148" ->
         <<"y", "1", "4", "8">>
    [] s = "" -> <<>>

parseCabinConfig(config) ==
  ParseCabinChars(IF config = Null THEN Null ELSE Some(Chars(config[1])))

convertWifi(wifiEnabled, highSpeedWifi) ==
  IF wifiEnabled # Some("Y") THEN "none"
  ELSE IF highSpeedWifi = Some("Y") THEN "high-speed"
  ELSE "low-speed"

\* the type names the modelled API sends, with what the three guess functions
\* (substring and regex matches on the name) return for each
TypeNames == {"AIRBUS A350-900", "AIRBUS A220-300 PASSENGER", "777-300ER"}
guessManufacturer(typeName) ==
  IF typeName = Null THEN Null
  ELSE IF typeName[1] \in {"AIRBUS A350-900", "AIRBUS A220-300 PASSENGER"} THEN Some("Airbus")
  ELSE Null
guessModel(typeName) ==
  IF typeName = Null THEN Null
  ELSE CASE typeName[1] = "AIRBUS A350-900" -> Some("A350")
         [] typeName[1] = "AIRBUS A220-300 PASSENGER" -> Some("A220")
         [] typeName[1] = "777-300ER" -> Some("777")
guessVariant(typeName) ==
  IF typeName = Null THEN Null
  ELSE CASE typeName[1] = "AIRBUS A350-900" -> Some("900")
         [] typeName[1] = "AIRBUS A220-300 PASSENGER" -> Some("300")
         [] typeName[1] = "777-300ER" -> Some("300")

\* Object.values(cabinClasses).reduce((a, b) => a + b, 0) || null
TotalSeats(classes) ==
  LET t == classes.first + classes.business + classes.premium_economy + classes.economy
  IN IF t = 0 THEN Null ELSE Some(t)

\* a plausible slip: the counter of a fresh record starts at 0
mutNewTracking(firstSeenDate) ==
  [ first_seen |-> firstSeenDate, last_seen |-> firstSeenDate, total_flights |-> 0 ]

\* tracking: { first_seen: firstSeenDate, last_seen: firstSeenDate, total_flights: 1 }
NewTracking(firstSeenDate) ==
  [ first_seen |-> firstSeenDate, last_seen |-> firstSeenDate, total_flights |-> 1 ]

transformToSchema(raw, firstSeenDate, now) ==
  LET cabinClasses == parseCabinConfig(raw.physicalPaxConfiguration) IN
  [ registration |-> raw.registration,
    icao24 |-> Null,
    aircraft_type |->
      [ iata_code |-> raw.typeCode, icao_code |-> Null,
        manufacturer |-> guessManufacturer(raw.typeName),
        model |-> guessModel(raw.typeName),
        variant |-> guessVariant(raw.typeName),
        full_name |-> raw.typeName ],
    operator |->
      [ sub_fleet_code |-> raw.subFleetCode,
        cabin_crew_employer |-> raw.cabinCrewEmployer,
        cockpit_crew_employer |-> raw.cockpitCrewEmployer ],
    cabin |->
      [ physical_configuration |-> raw.physicalPaxConfiguration,
        saleable_configuration |-> Null,
        total_seats |-> TotalSeats(cabinClasses),
        classes |-> cabinClasses,
        freight_configuration |-> Null ],
    connectivity |->
      [ wifi |-> Some(convertWifi(raw.wifiEnabled, raw.highSpeedWifi)),
        wifi_provider |-> IF raw.highSpeedWifi = Some("Y") THEN Some("Starlink") ELSE Null,
        satellite |-> (raw.satelliteConnectivity = Some("Y")) ],
    status |-> "active",
    tracking |-> NewTracking(firstSeenDate),
    metadata |-> [ created_at |-> now, updated_at |-> now ],
    history |-> <<>> ]

(***************************************************************************)
(* Data extraction                                                         *)
(***************************************************************************)
\* A flight of the API is [flightLegs |-> <<leg, ...>>], a leg is
\* [aircraft |-> Null or Some(aircraft object)].
extractAircraftFromFlight(flight, airlineCode) ==
  IF flight.flightLegs = <<>> THEN Null
  ELSE LET leg == flight.flightLegs[1] IN
    IF leg.aircraft = Null THEN Null
    ELSE LET aircraft == leg.aircraft[1] IN
      IF ~Truthy(aircraft.registration) THEN Null
      ELSE IF aircraft.ownerAirlineCode # Some(airlineCode) THEN Null
      ELSE Some([ registration |-> aircraft.registration[1],
                  typeCode |-> OrNull(aircraft.typeCode),
                  typeName |-> OrNull(aircraft.typeName),
                  subFleetCode |-> OrNull(aircraft.subFleetCodeId),
                  ownerAirlineCode |-> OrNull(aircraft.ownerAirlineCode),
                  ownerAirlineName |-> OrNull(aircraft.ownerAirlineName),
                  cabinCrewEmployer |-> OrNull(aircraft.cabinCrewEmployer),
                  cockpitCrewEmployer |-> OrNull(aircraft.cockpitCrewEmployer),
                  wifiEnabled |-> OrNull(aircraft.wifiEnabled),
                  highSpeedWifi |-> OrNull(aircraft.highSpeedWifi),
                  satelliteConnectivity |-> OrNull(aircraft.satelliteConnectivityOnBoard),
                  physicalPaxConfiguration |-> OrNull(aircraft.physicalPaxConfiguration) ])

(***************************************************************************)
(* Update logic                                                            *)
(***************************************************************************)
\* a plausible slip: the old and the new value are swapped
mutChange(dateStr, property, old, new) ==
  [ timestamp |-> dateStr, property |-> property, old_value |-> new,
    new_value |-> old, source |-> "airline_api" ]

Change(dateStr, property, old, new) ==
  [ timestamp |-> dateStr, property |-> property, old_value |-> old,
    new_value |-> new, source |-> "airline_api" ]

detectChanges(existing, newData, dateStr) ==
  (IF existing.connectivity.wifi # newData.connectivity.wifi
   THEN << Change(dateStr, "connectivity.wifi",
                  existing.connectivity.wifi, newData.connectivity.wifi) >>
   ELSE <<>>)
  \o
  (IF existing.connectivity.wifi_provider # newData.connectivity.wifi_provider
   THEN << Change(dateStr, "connectivity.wifi_provider",
                  existing.connectivity.wifi_provider, newData.connectivity.wifi_provider) >>
   ELSE <<>>)
  \o
  (IF existing.cabin.physical_configuration # newData.cabin.physical_configuration
   THEN << Change(dateStr, "cabin.physical_configuration",
                  existing.cabin.physical_configuration,
                  newData.cabin.physical_configuration) >>
   ELSE <<>>)
  \o
  (IF existing.operator.sub_fleet_code # newData.operator.sub_fleet_code
   THEN << Change(dateStr, "operator.sub_fleet_code",
                  existing.operator.sub_fleet_code, newData.operator.sub_fleet_code) >>
   ELSE <<>>)

\* `${h.timestamp}|${h.property}|${h.old_value}|${h.new_value}`
HistoryKey(h) ==
  ToString(h.timestamp) \o "|" \o h.property \o "|" \o Str(h.old_value)
    \o "|" \o Str(h.new_value)

RECURSIVE PushNew(_, _, _)
\* a plausible slip: every detected change is pushed, present or not
mutAppendChanges(history, changes) == history \o changes

\* the for loop of mergeAircraft: push each change whose key is not among the
\* keys the history had before the loop
PushNew(history, changes, existingKeys) ==
  IF changes = <<>> THEN history
  ELSE PushNew(IF HistoryKey(changes[1]) \in existingKeys
               THEN history ELSE Append(history, changes[1]),
               Tail(changes), existingKeys)

\* a plausible slip: unshift instead of push
mutPrependChanges(history, changes) == changes \o history

AppendChanges(history, changes) ==
  PushNew(history, changes, { HistoryKey(history[i]) : i \in 1..Len(history) })

\* a plausible slip: the merge leaves the type and the operator of the record
mutMergeTrackedOnly(existing, newData, changes, dateStr, now) ==
  [ existing EXCEPT
      !.connectivity = newData.connectivity,
      !.cabin.physical_configuration = newData.cabin.physical_configuration,
      !.cabin.total_seats = newData.cabin.total_seats,
      !.cabin.classes = newData.cabin.classes,
      !.tracking.last_seen = dateStr,
      !.tracking.total_flights = @ + 1,
      !.metadata.updated_at = now,
      !.history = IF Len(changes) > 0 THEN AppendChanges(@, changes) ELSE @ ]

\* mergeAircraft: the record after an UPDATE
mergeAircraft(existing, newData, changes, dateStr, now) ==
  [ existing EXCEPT
      !.connectivity = newData.connectivity,
      !.cabin.physical_configuration = newData.cabin.physical_configuration,
      !.cabin.total_seats = newData.cabin.total_seats,
      !.cabin.classes = newData.cabin.classes,
      !.operator = newData.operator,
      !.aircraft_type = newData.aircraft_type,
      !.tracking.last_seen = dateStr,
      !.tracking.total_flights = @ + 1,
      !.metadata.updated_at = now,
      !.history = IF Len(changes) > 0 THEN AppendChanges(@, changes) ELSE @ ]

\* a plausible slip: the SEEN branch refreshes the record like a merge does
mutSeenAircraft(existing, newData, dateStr) ==
  [ existing EXCEPT !.operator = newData.operator,
                    !.connectivity = newData.connectivity,
                    !.tracking.last_seen = dateStr,
                    !.tracking.total_flights = @ + 1 ]

\* a plausible slip: the SEEN branch does not count the flight
mutSeenNoCount(existing, newData, dateStr) ==
  [ existing EXCEPT !.tracking.last_seen = dateStr ]

\* the SEEN branch of main: only last_seen and total_flights move
SeenAircraft(existing, newData, dateStr) ==
  [ existing EXCEPT !.tracking.last_seen = dateStr,
                    !.tracking.total_flights = @ + 1 ]

(***************************************************************************)
(* JavaScript Maps (insertion-ordered): sequences of [key, value] entries  *)
(***************************************************************************)
MapHas(m, k) == \E i \in 1..Len(m) : m[i].key = k
MapIndex(m, k) == CHOOSE i \in 1..Len(m) : m[i].key = k
MapGet(m, k) == m[MapIndex(m, k)].value
\* Map.prototype.set: replace the value in place, or append a new entry
MapSet(m, k, v) ==
  IF MapHas(m, k) THEN [m EXCEPT ![MapIndex(m, k)].value = v]
  ELSE Append(m, [key |-> k, value |-> v])

(***************************************************************************)
(* Catalog store                                                           *)
(***************************************************************************)
\* the catalog main creates when there is no file or in bootstrap mode
EmptyCatalog(now) ==
  [ schema_version |-> "1.0.0", airline |-> AirlineCode, generated_at |-> now,
    aircraft_count |-> 0, aircraft |-> <<>> ]

\* a plausible slip: the file is never read
mutLoadNothing(file, boot, now) == EmptyCatalog(now)

\* a plausible slip: the file is read in a bootstrap run too
mutLoadAlways(file, boot, now) == IF file # Null THEN file[1] ELSE EmptyCatalog(now)

\* if (fs.existsSync(catalogPath) && !bootstrap) the file is parsed; otherwise
\* the run starts from a new, empty catalog
LoadCatalog(file, boot, now) ==
  IF file # Null /\ ~boot THEN file[1] ELSE EmptyCatalog(now)

\* --stale-days when the option is not given: parseInt(staleDaysArg || '30', 10)
DefaultStaleDays == 30

\* instants are counted in hours: 24 * 60 * 60 * 1000 ms is one day
HoursPerDay == 24

\* tracking.last_seen of a record that has none (undefined, null or "")
NoDate == 0

\* a plausible slip: a record last seen exactly at the threshold is stale too
mutIsOlder(lastSeen, staleThreshold) == HoursPerDay * lastSeen <= staleThreshold

\* new Date(a.tracking.last_seen) < staleThreshold: a date without a time is
\* midnight UTC of that day
IsOlder(lastSeen, staleThreshold) == HoursPerDay * lastSeen < staleThreshold

\* the stale block of main: the records of the catalog that were not observed
\* in the run and have no last_seen or one before the threshold, in catalog order
RECURSIVE FilterStale(_, _, _, _)
FilterStale(aircraft, i, seen, staleThreshold) ==
  IF i > Len(aircraft) THEN <<>>
  ELSE LET a == aircraft[i]
           notSeen == ~MapHas(seen, a.registration)
           stale == IF a.tracking.last_seen = NoDate THEN TRUE
                    ELSE IsOlder(a.tracking.last_seen, staleThreshold)
       IN (IF notSeen /\ stale THEN <<a>> ELSE <<>>)
            \o FilterStale(aircraft, i + 1, seen, staleThreshold)

StaleAircraft(aircraft, seen, todayDate, days) ==
  FilterStale(aircraft, 1, seen, todayDate - days * HoursPerDay)

\* aircraftByReg: the Map from a registration to its record, a record being
\* named by its position in catalog.aircraft (the Map holds references)
\* a plausible slip: the lookup is not filled from the loaded catalog
mutEmptyLookup(aircraft, i, m) == m

RECURSIVE BuildLookup(_, _, _)
BuildLookup(aircraft, i, m) ==
  IF i > Len(aircraft) THEN m
  ELSE BuildLookup(aircraft, i + 1, MapSet(m, aircraft[i].registration, i))

\* the position localeCompare gives the modelled type codes and registrations
CodeRank(code) ==
  CASE code = "" -> 0 [] code = "223" -> 1 [] code = "359" -> 2
RegRank(reg) ==
  CASE reg = "F-HBLA" -> 1 [] reg = "F-HTYA" -> 2

\* a plausible slip: the type code is not compared
mutCompareAircraft(a, b) == RegRank(a.registration) - RegRank(b.registration)

\* the comparator of catalog.aircraft.sort: negative, zero or positive
CompareAircraft(a, b) ==
  LET ca == CodeRank(IF Truthy(a.aircraft_type.iata_code)
                     THEN a.aircraft_type.iata_code[1] ELSE "")
      cb == CodeRank(IF Truthy(b.aircraft_type.iata_code)
                     THEN b.aircraft_type.iata_code[1] ELSE "")
  IN IF ca # cb THEN ca - cb ELSE RegRank(a.registration) - RegRank(b.registration)

\* Array.prototype.sort (stable) as an insertion sort
RECURSIVE InsertSorted(_, _)
InsertSorted(sorted, x) ==
  IF sorted = <<>> THEN <<x>>
  ELSE IF CompareAircraft(sorted[Len(sorted)], x) <= 0 THEN Append(sorted, x)
  ELSE Append(InsertSorted(SubSeq(sorted, 1, Len(sorted) - 1), x), sorted[Len(sorted)])
RECURSIVE SortAircraft(_)
SortAircraft(aircraft) ==
  IF aircraft = <<>> THEN <<>>
  ELSE InsertSorted(SortAircraft(SubSeq(aircraft, 1, Len(aircraft) - 1)),
                    aircraft[Len(aircraft)])

(***************************************************************************)
(* State                                                                   *)
(***************************************************************************)
VARIABLES
  disk,            \* airlines/AF.json: Null (no file) or Some(catalog)
  changesFile,     \* af-changes.json: Null (no file) or Some(document)
  pc,              \* where the process is: idle (none yet), dates (head of the
                   \* loop over the dates), request (apiRequest is called and
                   \* its response handled; or, where sending and receiving are
                   \* two steps, throttle is awaited), fetch (the response of
                   \* fetch is awaited),
                   \* process (in the loop over seenToday), done, failed
  runs,            \* runs started so far; also the instant new Date() reads
  today,           \* the calendar day of the current run
  dryRun, bootstrap,
  datesToProcess, dateIdx,
  apiKeys,         \* CONFIG.apiKeys.length
  currentKeyIndex,
  retryCount,      \* the retryCount argument of the running apiRequest
  attempts,        \* the key index of each HTTP attempt of the latest top-level
                   \* apiRequest call
  error,           \* the Error the latest top-level apiRequest call rejected
                   \* with (Null: it is running, or it resolved)
  pageNumber, hasMore, allFlights,
  catalog, aircraftByReg,
  totalNew, totalUpdated, totalSeen, allChanges, seenAircraftAll,
  seenToday, procIdx,
  lastOutcome,     \* the latest reconciliation of the date: NEW / UPDATED / SEEN,
                   \* its change list, the record as it was and the observation
  diskAtStart,     \* the catalog file as it was when the run started
  writes,          \* writes of the catalog file in the current run
  rateLimited,     \* an apiRequest of this run rejected after 403/429 on its last key
  fatalSeen,       \* an apiRequest of this run met another non-2xx status or a
                   \* body that is not JSON
  staleDays,       \* the value of --stale-days, in days
  observedOn,      \* the <<registration, date>> pairs the current or last run
                   \* extracted from the flights it fetched
  replay,          \* Null, or for the comparison of a dry run with the run
                   \* that follows it: the flights the API has for each date
                   \* and what the dry run reported
  staleReport,     \* the stale block of the last run that ended: Null when the
                   \* block was skipped, else todayDate (in hours) and staleAircraft
  timeSince,       \* what Date.now() - lastRequestTime would read now, in ms
  lastGap,         \* Null, or the time in ms between the last two assignments
                   \* of lastRequestTime in this process
  inFlight         \* fetch calls that have not settled yet

vars == <<disk, changesFile, pc, runs, today, dryRun, bootstrap, datesToProcess,
          dateIdx, apiKeys, currentKeyIndex, retryCount, attempts,
          error, pageNumber, hasMore, allFlights, catalog, aircraftByReg,
          totalNew, totalUpdated, totalSeen, allChanges, seenAircraftAll, seenToday,
          procIdx, lastOutcome, diskAtStart, staleDays, staleReport, observedOn, replay,
          writes, rateLimited, fatalSeen, timeSince, lastGap, inFlight>>

(***************************************************************************)
(* The remote API as the model's input                                     *)
(***************************************************************************)
\* The aircraft sub-objects the modelled API sends for a registration.
\*   1: no wifi; 2: as 1 with low-speed wifi; 3: as 1 with another cabin crew
\*   employer and satellite connectivity (untracked fields only);
\*   4: another type, Starlink, another cabin, no sub-fleet code;
\*   5: as 1 without a type code
ApiAircraft(reg, v) ==
  [ registration |-> Some(reg),
    typeCode |-> IF v = 4 THEN Some("359") ELSE IF v = 5 THEN Null ELSE Some("223"),
    typeName |-> IF v = 4 THEN Some("AIRBUS A350-900")
                 ELSE Some("AIRBUS A220-300 PASSENGER"),
    subFleetCodeId |-> IF v = 4 THEN Null ELSE Some("CA"),
    ownerAirlineCode |-> Some(AirlineCode),
    ownerAirlineName |-> Some("AIR FRANCE"),
    cabinCrewEmployer |-> IF v = 3 THEN Some("HOP") ELSE Some("AF"),
    cockpitCrewEmployer |-> Some("AF"),
    wifiEnabled |-> IF v \in {2, 4} THEN Some("Y") ELSE Some("N"),
    highSpeedWifi |-> IF v = 4 THEN Some("Y") ELSE Null,
    satelliteConnectivityOnBoard |-> IF v = 3 THEN Some("Y") ELSE Null,
    physicalPaxConfiguration |-> IF v = 4 THEN Some("J034W024Y266") ELSE Some("Y148") ]

FlightOf(aircraft) == [flightLegs |-> << [aircraft |-> Some(aircraft)] >>]
\* a flight operated for the airline on equipment owned by another airline
ForeignFlight ==
  FlightOf([ApiAircraft("PH-BHA", 1) EXCEPT !.ownerAirlineCode = Some("KL")])

\* a page body: the flights and page.totalPages (Null: absent)
PageBody(flights, totalPages) ==
  [operationalFlights |-> flights, totalPages |-> totalPages]

\* an HTTP response: status, parsed body (Null: the body is not JSON) and whether
\* the text of the JSON parse error contains "403" or "429" (V8 quotes the
\* position of the offending character and a snippet of the body).  The status
\* text of a non-2xx response is taken to be the standard reason phrase.
OkResponse(body) == [status |-> 200, body |-> Some(body), text |-> FALSE]
StatusResponse(status) == [status |-> status, body |-> Null, text |-> FALSE]
MalformedResponse(text) == [status |-> 200, body |-> Null, text |-> text]

(***************************************************************************)
(* Errors                                                                  *)
(***************************************************************************)
\* new Error(`API Error: ${response.status} ${response.statusText}`)
ApiError(status) == [status |-> Some(status), text |-> FALSE]
\* the SyntaxError response.json() rejects with
JsonError(text) == [status |-> Null, text |-> text]
\* a catch clause that rethrows every error
mutIncludes403or429(err) == FALSE

\* error.message.includes('403') || error.message.includes('429')
Includes403or429(err) == err.status \in {Some(403), Some(429)} \/ err.text

(***************************************************************************)
(* Fetch flights                                                           *)
(***************************************************************************)
\* the loop over the flights of a date: seenToday and seenAircraftAll
RECURSIVE ExtractAll(_, _, _, _, _)
ExtractAll(flights, i, today_, all_, dateStr) ==
  IF i > Len(flights) THEN <<today_, all_>>
  ELSE LET extracted == extractAircraftFromFlight(flights[i], AirlineCode) IN
    IF extracted # Null
    THEN ExtractAll(flights, i + 1,
                    MapSet(today_, extracted[1].registration, extracted[1]),
                    MapSet(all_, extracted[1].registration,
                           [data |-> extracted[1], date |-> dateStr]),
                    dateStr)
    ELSE ExtractAll(flights, i + 1, today_, all_, dateStr)

\* fetchFlightsForDate returns the flights to main, which extracts the aircraft
\* of the date and enters the loop over seenToday (or, with none seen, goes on
\* to the next date).  The locals of fetchFlightsForDate are gone.
ReturnFlights(flights) ==
  /\ LET maps == ExtractAll(flights, 1, <<>>, seenAircraftAll, datesToProcess[dateIdx]) IN
     /\ seenToday' = maps[1]
     /\ seenAircraftAll' = maps[2]
     /\ observedOn' = observedOn \cup
          { << maps[1][n].key, datesToProcess[dateIdx] >> : n \in 1..Len(maps[1]) }
     /\ IF maps[1] = <<>>
        THEN pc' = "dates" /\ dateIdx' = dateIdx + 1
        ELSE pc' = "process" /\ dateIdx' = dateIdx
  /\ procIdx' = 1
  /\ pageNumber' = 0
  /\ hasMore' = TRUE
  /\ allFlights' = <<>>
  /\ retryCount' = 0

\* if (pageNumber > 100) break, evaluated after pageNumber++
CapReached(nextPage) == nextPage > PageCap

\* The body of the while loop of fetchFlightsForDate once apiRequest resolved
\* with a page: collect the flights, decide hasMore, advance, then send the
\* next request or return.
FetchPage(page) ==
  LET totalPages == IF page.totalPages = Null \/ page.totalPages = Some(0)
                    THEN 1 ELSE page.totalPages[1]
      more == pageNumber < totalPages - 1
      flights == allFlights \o page.operationalFlights
  IN
  /\ error' = Null
  /\ IF more /\ ~CapReached(pageNumber + 1)
     THEN /\ allFlights' = flights
          /\ hasMore' = more
          /\ pageNumber' = pageNumber + 1
          /\ retryCount' = 0
          /\ pc' = "request"
          /\ UNCHANGED <<dateIdx, seenToday, seenAircraftAll, observedOn, procIdx>>
     ELSE ReturnFlights(flights)
  /\ UNCHANGED <<datesToProcess, apiKeys, catalog, aircraftByReg, allChanges,
                 lastOutcome, rateLimited, fatalSeen>>

\* The process ends: its memory is gone.  The files stay, and so do the flags and
\* the summary of the run (the arguments and the counts it printed).
ExitProcess ==
  /\ datesToProcess' = <<>>
  /\ dateIdx' = 1
  /\ apiKeys' = 1
  /\ currentKeyIndex' = 0
  /\ retryCount' = 0
  /\ attempts' = <<>>
  /\ pageNumber' = 0
  /\ hasMore' = TRUE
  /\ allFlights' = <<>>
  /\ catalog' = EmptyCatalog(0)
  /\ aircraftByReg' = <<>>
  /\ allChanges' = <<>>
  /\ seenAircraftAll' = <<>>
  /\ seenToday' = <<>>
  /\ procIdx' = 1
  /\ lastOutcome' = Null
  /\ observedOn' = observedOn

\* The catch clause of fetchFlightsForDate, entered with the error apiRequest
\* (or response.json()) rejected with: a message naming 403 or 429 ends the
\* crawl of the date with the flights collected so far; any other error is
\* rethrown, reaches main().catch and the process exits with status 1.
FetchCatch(err, sent, log) ==
  /\ error' = Some(err)
  /\ rateLimited' = (rateLimited \/ err.status \in {Some(403), Some(429)})
  /\ fatalSeen' = (fatalSeen \/ err.status \notin {Some(403), Some(429)})
  /\ IF Includes403or429(err)
     THEN /\ ReturnFlights(allFlights)
          /\ currentKeyIndex' = sent
          /\ attempts' = log
          /\ UNCHANGED <<datesToProcess, apiKeys, catalog, aircraftByReg, allChanges,
                         lastOutcome>>
     ELSE /\ pc' = "failed"
          /\ ExitProcess

(***************************************************************************)
(* API client                                                              *)
(***************************************************************************)
\* rotateKey: currentKeyIndex = (currentKeyIndex + 1) % CONFIG.apiKeys.length
rotateKey(index, n) == (index + 1) % n

\* a plausible slip: retryCount < CONFIG.apiKeys.length
mutMayRetry(status, retry, n) == status \in {429, 403} /\ retry < n

\* (response.status === 429 || response.status === 403)
\*   && retryCount < CONFIG.apiKeys.length - 1
MayRetry(status, retry, n) == status \in {429, 403} /\ retry < n - 1

\* let lastRequestTime = 0: the first Date.now() - lastRequestTime of a process
\* is the time since the epoch, far above any delay
SinceEpoch == 1000000

\* a plausible slip: the comparison the wrong way round
mutThrottleWait(since) == IF since > RequestDelay THEN since - RequestDelay ELSE 0

\* throttle: the delay handed to setTimeout, 0 when timeSince >= requestDelay
throttleWait(since) == IF since < RequestDelay THEN RequestDelay - since ELSE 0

\* throttle, from its call to lastRequestTime = Date.now(): the time between
\* this assignment and the previous one, when the timer fires late ms after the
\* delay asked for (setTimeout never fires early).  Null for the first call.
Released(late) ==
  IF timeSince = SinceEpoch THEN Null
  ELSE LET wait == throttleWait(timeSince)
       IN Some(timeSince + wait + (IF wait > 0 THEN late ELSE 0))

\* apiRequest is about to send the request again with the next key
Retrying(resp) == resp.status # 200 /\ MayRetry(resp.status, retryCount, apiKeys)

\* apiRequest from the response of fetch to the next await: retry with the
\* next key, or hand the page or the error to fetchFlightsForDate.  The key of
\* the request was chosen before it was sent: rotated on a top-level call.
Respond(resp) ==
  /\ LET sent == IF apiKeys > 1 /\ retryCount = 0
                 THEN rotateKey(currentKeyIndex, apiKeys) ELSE currentKeyIndex
         log == IF retryCount = 0 THEN <<sent>> ELSE Append(attempts, sent)
     IN
     IF resp.status = 200
     THEN IF resp.body # Null
          THEN /\ currentKeyIndex' = sent
               /\ attempts' = log
               /\ FetchPage(resp.body[1])
          ELSE FetchCatch(JsonError(resp.text), sent, log)
     ELSE IF MayRetry(resp.status, retryCount, apiKeys)
     THEN /\ currentKeyIndex' = rotateKey(sent, apiKeys)
          /\ attempts' = log
          /\ retryCount' = retryCount + 1
          /\ error' = Null
          /\ pc' = "request"
          /\ UNCHANGED <<pageNumber, hasMore, allFlights, datesToProcess,
                         dateIdx, apiKeys, catalog, aircraftByReg, allChanges,
                         seenAircraftAll, observedOn, seenToday, procIdx, lastOutcome,
                         rateLimited, fatalSeen>>
     ELSE FetchCatch(ApiError(resp.status), sent, log)
  /\ UNCHANGED <<disk, changesFile, runs, today, dryRun, bootstrap, totalNew,
                 totalUpdated, totalSeen, diskAtStart, replay, staleDays, staleReport, writes>>

\* The time from lastRequestTime = Date.now() to the next call of throttle (or
\* to the end of the process): the response took latency ms, and a retry
\* sleeps RetryDelay first.
Elapsed(resp, latency) ==
  IF pc' = "failed" THEN SinceEpoch
  ELSE latency + (IF Retrying(resp) THEN RetryDelay ELSE 0)

\* One HTTP attempt of apiRequest and the code that runs on its response up to
\* the next await, with a response that arrives at once: throttle, count the
\* request, rotate on a top-level call, send with the current key; then as
\* Respond.
ApiAttempt(resp) ==
  /\ pc = "request"
  /\ Respond(resp)
  /\ lastGap' = IF pc' = "failed" THEN Null ELSE Released(0)
  /\ timeSince' = Elapsed(resp, 0)
  /\ inFlight' = inFlight

\* apiRequest up to await fetch(...): throttle, then the request leaves
SendRequest(late) ==
  /\ pc = "request"
  /\ lastGap' = Released(late)
  /\ timeSince' = 0
  /\ inFlight' = inFlight + 1
  /\ pc' = "fetch"
  /\ UNCHANGED <<disk, changesFile, runs, today, dryRun, bootstrap, datesToProcess,
                 dateIdx, apiKeys, currentKeyIndex, retryCount, attempts,
                 error, pageNumber, hasMore, allFlights, catalog, aircraftByReg,
                 totalNew, totalUpdated, totalSeen, allChanges, seenAircraftAll,
                 seenToday, procIdx, lastOutcome, diskAtStart, staleDays,
                 staleReport, observedOn, replay, writes, rateLimited, fatalSeen>>

\* apiRequest from the moment fetch settles, latency ms after the request left
Receive(resp, latency) ==
  /\ pc = "fetch"
  /\ Respond(resp)
  /\ inFlight' = inFlight - 1
  /\ timeSince' = Elapsed(resp, latency)
  /\ lastGap' = IF pc' = "failed" THEN Null ELSE lastGap

(***************************************************************************)
(* Main                                                                    *)
(***************************************************************************)
\* getDateRange(new Date(), days): the days days ending today, oldest first
getDateRange(startDate, days) == [ i \in 1..days |-> startDate - days + i ]

\* main up to the loop over the dates, in a fresh process: the arguments, the
\* keys, the catalog loaded from the file (JSON.parse returns the value
\* JSON.stringify wrote: the records hold strings, numbers, booleans, null,
\* arrays and objects only) or created empty, the lookup, the dates.
StartRun(limit, dry, boot, dateArg, days, nKeys, td, staleDaysArg) ==
  /\ pc \in {"idle", "done", "failed"}
  /\ runs < limit
  /\ td >= today
  /\ runs' = runs + 1
  /\ today' = td
  /\ dryRun' = dry
  /\ bootstrap' = boot
  /\ apiKeys' = nKeys
  /\ currentKeyIndex' = 0
  /\ retryCount' = 0
  /\ attempts' = <<>>
  /\ error' = Null
  /\ pageNumber' = 0
  /\ hasMore' = TRUE
  /\ allFlights' = <<>>
  /\ catalog' = LoadCatalog(disk, boot, runs + 1)
  /\ aircraftByReg' = BuildLookup(catalog'.aircraft, 1, <<>>)
  /\ datesToProcess' = IF boot THEN getDateRange(td, days)
                       ELSE << IF dateArg = Null THEN td ELSE dateArg[1] >>
  /\ dateIdx' = 1
  /\ totalNew' = 0
  /\ totalUpdated' = 0
  /\ totalSeen' = 0
  /\ allChanges' = <<>>
  /\ seenAircraftAll' = <<>>
  /\ seenToday' = <<>>
  /\ procIdx' = 1
  /\ lastOutcome' = Null
  /\ diskAtStart' = disk
  /\ staleDays' = IF staleDaysArg = Null THEN DefaultStaleDays ELSE staleDaysArg[1]
  /\ staleReport' = Null
  /\ observedOn' = {}
  /\ replay' = replay
  /\ writes' = 0
  /\ rateLimited' = FALSE
  /\ fatalSeen' = FALSE
  /\ timeSince' = SinceEpoch
  /\ lastGap' = Null
  /\ inFlight' = 0
  /\ pc' = "dates"
  /\ UNCHANGED <<disk, changesFile>>

\* The head of the loop over the dates and the start of fetchFlightsForDate: the
\* first page of the date is requested.
BeginDate ==
  /\ pc = "dates"
  /\ dateIdx <= Len(datesToProcess)
  /\ pageNumber' = 0
  /\ hasMore' = TRUE
  /\ allFlights' = <<>>
  /\ retryCount' = 0
  /\ lastOutcome' = Null
  /\ pc' = "request"
  /\ UNCHANGED <<disk, changesFile, runs, today, dryRun, bootstrap, datesToProcess,
                 dateIdx, apiKeys, currentKeyIndex, attempts, error,
                 catalog, aircraftByReg, totalNew, totalUpdated, totalSeen,
                 allChanges, seenAircraftAll, observedOn, seenToday, procIdx, diskAtStart, replay,
                 staleDays, staleReport,
                 writes, rateLimited, fatalSeen, timeSince, lastGap, inFlight>>

Outcome(action, reg, dateStr, changes, before, rawData) ==
  Some([action |-> action, registration |-> reg, date |-> dateStr,
        changes |-> changes, before |-> before, observed |-> rawData])

\* One iteration of the loop over seenToday: reconcile one registration.
Reconcile ==
  /\ pc = "process"
  /\ LET reg == seenToday[procIdx].key
         rawData == seenToday[procIdx].value
         dateStr == datesToProcess[dateIdx]
         newData == transformToSchema(rawData, dateStr, runs)
     IN
     IF ~MapHas(aircraftByReg, reg)
     THEN /\ totalNew' = totalNew + 1
          /\ lastOutcome' = Outcome("NEW", reg, dateStr, <<>>, Null, rawData)
          /\ IF ~dryRun
             THEN /\ catalog' = [catalog EXCEPT !.aircraft = Append(@, newData)]
                  /\ aircraftByReg' = MapSet(aircraftByReg, reg, Len(catalog.aircraft) + 1)
             ELSE UNCHANGED <<catalog, aircraftByReg>>
          /\ UNCHANGED <<totalUpdated, totalSeen, allChanges>>
     ELSE LET at == MapGet(aircraftByReg, reg)
              existing == catalog.aircraft[at]
              changes == detectChanges(existing, newData, dateStr)
          IN
          IF Len(changes) > 0
          THEN /\ totalUpdated' = totalUpdated + 1
               /\ allChanges' = allChanges \o
                    [ i \in 1..Len(changes) |->
                        [registration |-> reg, change |-> changes[i]] ]
               /\ lastOutcome' = Outcome("UPDATED", reg, dateStr, changes,
                                               Some(existing), rawData)
               /\ IF ~dryRun
                  THEN catalog' = [catalog EXCEPT !.aircraft[at] =
                                     mergeAircraft(existing, newData, changes, dateStr, runs)]
                  ELSE UNCHANGED catalog
               /\ UNCHANGED <<aircraftByReg, totalNew, totalSeen>>
          ELSE /\ totalSeen' = totalSeen + 1
               /\ lastOutcome' = Outcome("SEEN", reg, dateStr, <<>>, Some(existing), rawData)
               /\ IF ~dryRun
                  THEN catalog' = [catalog EXCEPT !.aircraft[at] =
                                     SeenAircraft(existing, newData, dateStr)]
                  ELSE UNCHANGED catalog
               /\ UNCHANGED <<aircraftByReg, totalNew, totalUpdated, allChanges>>
  /\ IF procIdx = Len(seenToday)
     THEN pc' = "dates" /\ dateIdx' = dateIdx + 1 /\ procIdx' = 1 /\ seenToday' = <<>>
     ELSE pc' = "process" /\ dateIdx' = dateIdx /\ procIdx' = procIdx + 1
          /\ seenToday' = seenToday
  /\ UNCHANGED <<disk, changesFile, runs, today, dryRun, bootstrap, datesToProcess,
                 apiKeys, currentKeyIndex, retryCount, attempts,
                 error, pageNumber, hasMore, allFlights, seenAircraftAll, observedOn,
                 diskAtStart, replay, staleDays, staleReport, writes, rateLimited, fatalSeen,
                 timeSince, lastGap, inFlight>>

\* what the summary of a run and its change list report, with the arguments
\* and the catalog file the run started from
Summary(boot, dates, file, nNew, nUpdated, nSeen, changes) ==
  [ bootstrap |-> boot, dates |-> dates, diskAtStart |-> file,
    totalNew |-> nNew, totalUpdated |-> nUpdated, totalSeen |-> nSeen,
    changes |-> changes ]

\* a plausible slip: the save is not guarded by the dry-run flag
mutShouldSave(dry, nNew, nUpdated, nSeen) == nNew > 0 \/ nUpdated > 0 \/ nSeen > 0

\* if (!dryRun && (totalNew > 0 || totalUpdated > 0 || totalSeen > 0))
ShouldSave(dry, nNew, nUpdated, nSeen) ==
  ~dry /\ (nNew > 0 \/ nUpdated > 0 \/ nSeen > 0)

\* After the last date: the summary, the stale block, the optional export of the
\* changes and the save of the catalog (count recomputed, aircraft sorted), then
\* the process ends. hour is the time of day new Date() reads in the stale block.
Finish(outputChanges, hour) ==
  /\ pc = "dates"
  /\ dateIdx > Len(datesToProcess)
  /\ changesFile' = IF outputChanges /\ Len(allChanges) > 0
                    THEN Some([generated_at |-> runs, airline |-> AirlineCode,
                               changes |-> allChanges])
                    ELSE changesFile
  /\ IF ShouldSave(dryRun, totalNew, totalUpdated, totalSeen)
     THEN /\ disk' = Some([catalog EXCEPT !.generated_at = runs,
                                          !.aircraft_count = Len(catalog.aircraft),
                                          !.aircraft = SortAircraft(catalog.aircraft)])
          /\ writes' = writes + 1
     ELSE UNCHANGED <<disk, writes>>
  /\ staleReport' = IF ~bootstrap
                    THEN LET todayDate == HoursPerDay * today + hour
                         IN Some([todayDate |-> todayDate,
                                  staleAircraft |->
                                    StaleAircraft(catalog.aircraft, seenAircraftAll,
                                                  todayDate, staleDays)])
                    ELSE Null
  /\ replay' = IF replay # Null /\ dryRun
               THEN Some([ replay[1] EXCEPT !.report =
                             Some(Summary(bootstrap, datesToProcess, diskAtStart, totalNew,
                                          totalUpdated, totalSeen, allChanges)) ])
               ELSE replay
  /\ pc' = "done"
  /\ error' = Null
  /\ ExitProcess
  /\ timeSince' = SinceEpoch
  /\ lastGap' = Null
  /\ inFlight' = 0
  /\ UNCHANGED <<runs, today, dryRun, bootstrap, totalNew, totalUpdated, totalSeen,
                 diskAtStart, staleDays, rateLimited, fatalSeen>>

(***************************************************************************)
(* Specifications                                                          *)
(***************************************************************************)
DateArgs == {Null} \cup { Some(d) : d \in 1..MaxDay }
TotalPagesSent == {Null} \cup { Some(n) : n \in 1..MaxTotalPages }
Observed(reg, v) == FlightOf(ApiAircraft(reg, v))
\* a page carries no flight or one
PagesOf(flights) ==
  { PageBody(fl, tp) : fl \in {<<>>} \cup { <<f>> : f \in flights }, tp \in TotalPagesSent }

\* --- Spec: one run of the script against an API that may answer anything ---
SpecFlights ==
  { Observed("F-HBLA", v) : v \in {1, 2} } \cup {Observed("F-HTYA", 1), ForeignFlight}
SpecResponses ==
  { OkResponse(b) : b \in PagesOf(SpecFlights) }
    \cup { StatusResponse(st) : st \in {403, 429, 500} }
    \cup { MalformedResponse(t) : t \in BOOLEAN }

\* the catalog file an earlier run (at instant 0, with --date 1) wrote after it
\* saw both registrations
SeedCatalog ==
  [ EmptyCatalog(0) EXCEPT
      !.aircraft_count = 2,
      !.aircraft = SortAircraft(
         [ i \in 1..2 |->
             transformToSchema(
               extractAircraftFromFlight(
                 Observed(IF i = 1 THEN "F-HTYA" ELSE "F-HBLA", 1), AirlineCode)[1],
               1, 0) ]) ]

IdleWith(file, timetable) ==
  /\ disk = file
  /\ replay = timetable
  /\ changesFile = Null
  /\ pc = "idle"
  /\ runs = 0
  /\ today = 1
  /\ dryRun = FALSE
  /\ bootstrap = FALSE
  /\ datesToProcess = <<>>
  /\ dateIdx = 1
  /\ apiKeys = 1
  /\ currentKeyIndex = 0
  /\ retryCount = 0
  /\ attempts = <<>>
  /\ error = Null
  /\ pageNumber = 0
  /\ hasMore = TRUE
  /\ allFlights = <<>>
  /\ catalog = EmptyCatalog(0)
  /\ aircraftByReg = <<>>
  /\ totalNew = 0
  /\ totalUpdated = 0
  /\ totalSeen = 0
  /\ allChanges = <<>>
  /\ seenAircraftAll = <<>>
  /\ seenToday = <<>>
  /\ procIdx = 1
  /\ lastOutcome = Null
  /\ diskAtStart = file
  /\ staleDays = DefaultStaleDays
  /\ staleReport = Null
  /\ observedOn = {}
  /\ writes = 0
  /\ rateLimited = FALSE
  /\ fatalSeen = FALSE
  /\ timeSince = SinceEpoch
  /\ lastGap = Null
  /\ inFlight = 0

Idle(file) == IdleWith(file, Null)

\* no process has run yet; there is no catalog file, or the one an earlier run wrote
Init == \E file \in {Null, Some(SeedCatalog)} : Idle(file)

Next ==
  \/ \E dry \in BOOLEAN, boot \in BOOLEAN, dateArg \in DateArgs,
        days \in 1..MaxBootstrapDays, nKeys \in 1..MaxKeys, td \in 1..MaxDay :
       StartRun(MaxRuns, dry, boot, dateArg, days, nKeys, td, Null)
  \/ BeginDate
  \/ \E resp \in SpecResponses : ApiAttempt(resp)
  \/ Reconcile
  \/ \E outputChanges \in BOOLEAN : Finish(outputChanges, NoonHour)

Spec == Init /\ [][Next]_vars

\* --- SpecReliable: runs, from no catalog file, against an API that always ---
\* --- answers 200 with a page                                             ---
ReliableFlights ==
  { Observed("F-HBLA", v) : v \in {1, 2, 3} } \cup {Observed("F-HTYA", 5), ForeignFlight}
ReliableResponses == { OkResponse(b) : b \in PagesOf(ReliableFlights) }

InitReliable == Idle(Null)

NextReliable ==
  \/ \E dry \in BOOLEAN, boot \in BOOLEAN, dateArg \in DateArgs,
        days \in 1..MaxBootstrapDays, td \in 1..MaxDay :
       StartRun(MaxReliableRuns, dry, boot, dateArg, days, 1, td, Null)
  \/ BeginDate
  \/ \E resp \in ReliableResponses : ApiAttempt(resp)
  \/ Reconcile
  \/ \E outputChanges \in BOOLEAN : Finish(outputChanges, NoonHour)

SpecReliable == InitReliable /\ [][NextReliable]_vars

\* --- SpecStale: one run on a catalog file whose two records were last   ---
\* --- seen 10, 30 or 40 days before, or carry no last_seen              ---
StaleAges == {10, 30, 40}
SeedLastSeen == {NoDate} \cup { StaleToday - age : age \in StaleAges }
StaleDaysArgs == {Null, Some(0), Some(10), Some(40)}
StaleHours == {0, NoonHour}

StaleSeed(lastSeenA, lastSeenB) ==
  [ SeedCatalog EXCEPT
      !.aircraft = [ i \in 1..2 |->
                       [ SeedCatalog.aircraft[i] EXCEPT
                           !.tracking.last_seen =
                              IF SeedCatalog.aircraft[i].registration = "F-HBLA"
                              THEN lastSeenA ELSE lastSeenB ] ] ]

StaleResponses ==
  { OkResponse(PageBody(fl, Null)) :
      fl \in { <<>>, << ForeignFlight >>, << Observed("F-HBLA", 1) >>,
               << Observed("F-HTYA", 1) >>,
               << Observed("F-HBLA", 1), Observed("F-HTYA", 1) >> } }

InitStale ==
  \E lastSeenA \in SeedLastSeen, lastSeenB \in SeedLastSeen :
    Idle(Some(StaleSeed(lastSeenA, lastSeenB)))

NextStale ==
  \/ \E dry \in BOOLEAN, boot \in BOOLEAN, staleDaysArg \in StaleDaysArgs :
       StartRun(MaxStaleRuns, dry, boot, Null, 1, 1, StaleToday, staleDaysArg)
  \/ BeginDate
  \/ \E resp \in StaleResponses : ApiAttempt(resp)
  \/ Reconcile
  \/ \E hour \in StaleHours : Finish(FALSE, hour)

SpecStale == InitStale /\ [][NextStale]_vars

\* --- SpecWindow: one non-dry bootstrap run over a window of days from   ---
\* --- no catalog file; on each day                                       ---
\* --- the API sends no flight, one or two flights of a registration, or ---
\* --- flights of two registrations                                      ---
WindowResponses ==
  { OkResponse(PageBody(fl, Null)) :
      fl \in { <<>>, << Observed("F-HBLA", 1) >>,
               << Observed("F-HBLA", 2) >>,
               << Observed("F-HBLA", 2), Observed("F-HBLA", 1) >>,
               << Observed("F-HTYA", 1) >>,
               << Observed("F-HTYA", 1), Observed("F-HBLA", 1) >> } }

NextWindow ==
  \/ \E days \in 1..MaxWindowDays :
       StartRun(MaxWindowRuns, FALSE, TRUE, Null, days, 1, MaxWindowDays, Null)
  \/ BeginDate
  \/ \E resp \in WindowResponses : ApiAttempt(resp)
  \/ Reconcile
  \/ Finish(FALSE, NoonHour)

SpecWindow == InitReliable /\ [][NextWindow]_vars

\* --- SpecPreview: a dry run, then a non-dry run with the same arguments ---
\* --- on the same catalog file; the API has fixed flights for each date, ---
\* --- so both runs get the same responses                               ---
PreviewFlights ==
  { <<>>, << Observed("F-HBLA", 1) >>, << Observed("F-HBLA", 2) >>,
    << Observed("F-HTYA", 1) >> }
Timetables == [ 1..MaxPreviewDays -> PreviewFlights ]
PreviewResponses ==
  { OkResponse(PageBody(replay[1].flights[datesToProcess[dateIdx]], Null)) }

InitPreview ==
  \E file \in {Null, Some(SeedCatalog)}, flights \in Timetables :
    IdleWith(file, Some([flights |-> flights, report |-> Null]))

NextPreview ==
  \/ \E boot \in BOOLEAN, days \in 1..MaxPreviewDays,
        dateArg \in {Null} \cup { Some(d) : d \in 1..MaxPreviewDays } :
       /\ StartRun(MaxPreviewRuns, runs = 0, boot, dateArg, days, 1, MaxPreviewDays, Null)
       /\ runs > 0 => /\ replay[1].report # Null
                      /\ boot = replay[1].report[1].bootstrap
                      /\ datesToProcess' = replay[1].report[1].dates
  \/ BeginDate
  \/ pc = "request" /\ \E resp \in PreviewResponses : ApiAttempt(resp)
  \/ Reconcile
  \/ Finish(FALSE, NoonHour)

SpecPreview == InitPreview /\ [][NextPreview]_vars

\* --- SpecHistory: many single-day runs that save, one registration whose ---
\* --- wifi, cabin and sub-fleet come and go                               ---
HistoryResponses ==
  { OkResponse(PageBody(fl, Null)) :
      fl \in {<<>>} \cup { << Observed("F-HBLA", v) >> : v \in {1, 2, 4} } }

NextHistory ==
  \/ \E dateArg \in DateArgs, td \in 1..MaxDay :
       StartRun(MaxHistoryRuns, FALSE, FALSE, dateArg, 1, 1, td, Null)
  \/ BeginDate
  \/ \E resp \in HistoryResponses : ApiAttempt(resp)
  \/ Reconcile
  \/ Finish(FALSE, NoonHour)

SpecHistory == InitReliable /\ [][NextHistory]_vars

\* --- SpecFetch: single-day runs whose crawl may be long: the API may report ---
\* --- any number of pages; the flights are on the first pages, the pages     ---
\* --- after them are empty                                                    ---
FetchFlights(page) ==
  IF page < MaxTotalPages THEN << Observed("F-HBLA", 1) >> ELSE <<>>
FetchResponses(page) ==
  { OkResponse(PageBody(FetchFlights(page), tp)) :
      tp \in {Null, Some(0), Some(2), Some(PageCap), Some(PageCap + 1), Some(2 * PageCap)} }
    \cup { StatusResponse(st) : st \in {403, 429, 500} }
    \cup { MalformedResponse(t) : t \in BOOLEAN }

NextFetch ==
  \/ \E dry \in BOOLEAN, nKeys \in 1..MaxFetchKeys :
       StartRun(MaxFetchRuns, dry, FALSE, Null, 1, nKeys, today, Null)
  \/ BeginDate
  \/ \E resp \in FetchResponses(pageNumber) : ApiAttempt(resp)
  \/ Reconcile
  \/ Finish(FALSE, NoonHour)

SpecFetch == InitReliable /\ [][NextFetch]_vars

\* --- SpecThrottle: one run over one or two dates with up to MaxThrottleKeys ---
\* --- keys; sending a request and receiving its response are two steps, the  ---
\* --- response takes some time and a timer may fire late                     ---
\* ms between the request leaving and the next call of throttle
Latencies == {0, RetryDelay, RequestDelay - RetryDelay, RequestDelay, RequestDelay + RetryDelay}
\* ms by which setTimeout fires after the delay asked for
Lates == {0, TimerSlack}

ThrottleResponses ==
  { OkResponse(PageBody(fl, tp)) :
      fl \in { <<>>, << Observed("F-HBLA", 1) >> }, tp \in {Null, Some(2)} }
    \cup { StatusResponse(st) : st \in {403, 429, 500} }

NextThrottle ==
  \/ \E boot \in BOOLEAN, days \in 1..MaxThrottleDays, nKeys \in 1..MaxThrottleKeys :
       StartRun(MaxThrottleRuns, TRUE, boot, Null, days, nKeys, MaxThrottleDays, Null)
  \/ BeginDate
  \/ \E late \in Lates : SendRequest(late)
  \/ \E resp \in ThrottleResponses, latency \in Latencies : Receive(resp, latency)
  \/ Reconcile
  \/ Finish(FALSE, NoonHour)

SpecThrottle == InitReliable /\ [][NextThrottle]_vars

\* --- SpecTransform: one single-day run that saves; the API sends one flight ---
\* --- whose aircraft fields range over every combination                      ---
Flags == {Null, Some(""), Some("Y"), Some("N")}
\* configurations made of tokens (one of them of a zero count, one with a
\* letter of no class), the empty string and strings without any token
CabinConfigs ==
  { "Y148", "J034W024Y266", "Y266J034W024", "F04C40S24M300", "J20P04J14Y100",
    "A12Y100", "Y00", "", "TBD", "Y1", "y148" }
TransformAircraft ==
  { [ registration |-> Some("F-HBLA"),
      typeCode |-> Some("223"),
      typeName |-> Some("AIRBUS A220-300 PASSENGER"),
      subFleetCodeId |-> sub,
      ownerAirlineCode |-> Some(AirlineCode),
      ownerAirlineName |-> Some("AIR FRANCE"),
      cabinCrewEmployer |-> Some("AF"),
      cockpitCrewEmployer |-> Some("AF"),
      wifiEnabled |-> wifi,
      highSpeedWifi |-> hs,
      satelliteConnectivityOnBoard |-> sat,
      physicalPaxConfiguration |-> cfg ] :
      wifi \in Flags, hs \in Flags, sat \in {Null, Some("Y")},
      sub \in {Null, Some("CA")}, cfg \in {Null} \cup { Some(c) : c \in CabinConfigs } }
TransformResponses ==
  { OkResponse(PageBody(<< FlightOf(a) >>, Null)) : a \in TransformAircraft }

NextTransform ==
  \/ StartRun(1, FALSE, FALSE, Null, 1, 1, today, Null)
  \/ BeginDate
  \/ \E resp \in TransformResponses : ApiAttempt(resp)
  \/ Reconcile
  \/ Finish(FALSE, NoonHour)

SpecTransform == InitReliable /\ [][NextTransform]_vars

(***************************************************************************)
(* The API client and the crawl of a date (SpecFetch)                      *)
(***************************************************************************)
RateLimit == {Some(403), Some(429)}

\* C1, as stated: once a page request has been rejected with 403/429 on every
\* key, the run ends with a fatal error: no flight of that date is reconciled
\* and the catalog file is not written.
C1_ExhaustionIsFatal ==
  rateLimited => (pc = "failed" /\ lastOutcome = Null /\ disk = diskAtStart)

\* C1, amended: the request that is rejected with 403/429 and not retried is
\* the one that used the last of the keys; its error is caught by
\* fetchFlightsForDate: the crawl of the date ends there, the flights of the
\* pages already fetched are returned and extracted, neither the catalog nor its
\* file is touched by that step, and the run does not fail: it ends normally
\* and writes the catalog file iff it is not a dry run and counted an aircraft.
C1_ExhaustionEndsTheCrawlOfTheDate ==
  /\ [][ (pc = "request" /\ error' # Null /\ error'[1].status \in RateLimit)
           => /\ Len(attempts') = apiKeys
              /\ pc' \in {"process", "dates"}
              /\ seenToday' = ExtractAll(allFlights, 1, <<>>, seenAircraftAll,
                                         datesToProcess[dateIdx])[1]
              /\ (pc' = "dates" <=> seenToday' = <<>>)
              /\ catalog' = catalog
              /\ disk' = disk ]_vars
  /\ [](rateLimited /\ ~fatalSeen => pc # "failed")
  /\ []((pc = "done" /\ rateLimited /\ ~fatalSeen)
          => (writes = 1 <=> (~dryRun /\ totalNew + totalUpdated + totalSeen > 0)))

\* a run whose second page was rejected on every key ended normally and saved
\* the aircraft of its first page
C1_Witness ==
  /\ pc = "done"
  /\ rateLimited /\ ~fatalSeen
  /\ totalNew = 1
  /\ writes = 1
  /\ disk # diskAtStart

\* C2: a top-level apiRequest call never makes more attempts than there are
\* keys and never sends two attempts with the same key; a call that ended with
\* the 403/429 error (every one of its attempts was answered 403 or 429) made
\* exactly as many attempts as there are keys.
C2_BoundedKeyRotation ==
  /\ Len(attempts) <= apiKeys
  /\ \A i \in 1..Len(attempts) : attempts[i] \in 0..(apiKeys - 1)
  /\ \A i, j \in 1..Len(attempts) : i # j => attempts[i] # attempts[j]
  /\ (error # Null /\ error[1].status \in RateLimit) => Len(attempts) = apiKeys

\* a call with the largest number of keys was rejected on each of them
C2_Witness ==
  /\ error # Null
  /\ error[1].status \in RateLimit
  /\ apiKeys = MaxFetchKeys
  /\ Len(attempts) = MaxFetchKeys

\* C3: fetchFlightsForDate requests at most 100 pages for one date: the pages
\* are requested in order from page 0, so no request is for page 100 or later.
C3_AtMostPageCapPages == pc = "request" => pageNumber + 1 <= PageCap

(***************************************************************************)
(* The catalog file (Spec)                                                 *)
(***************************************************************************)
\* C4: within one run the catalog file is written at most once and only when
\* every date of the run has been processed; and when a fatal error (a non-2xx
\* status other than 403/429, or a body that is not JSON) has occurred on a
\* date of the run, the catalog file is what it was before the run.
C4_NoPartialCatalogWrite ==
  /\ writes <= 1
  /\ (writes = 1 => pc = "done")
  /\ (fatalSeen => disk = diskAtStart)

(***************************************************************************)
(* Reconciliation (SpecReliable)                                           *)
(***************************************************************************)
\* the iteration of the loop over seenToday that is about to run (pc = "process")
CurReg == seenToday[procIdx].key
CurRaw == seenToday[procIdx].value
CurDate == datesToProcess[dateIdx]
CurNew == transformToSchema(CurRaw, CurDate, runs)
\* the position of the record of a registration in catalog.aircraft (0: none)
CatalogIndex(reg) ==
  IF \E i \in 1..Len(catalog.aircraft) : catalog.aircraft[i].registration = reg
  THEN CHOOSE i \in 1..Len(catalog.aircraft) : catalog.aircraft[i].registration = reg
  ELSE 0
\* the record and the transformed observation agree on the four tracked properties
TrackedAgree(existing, newData) ==
  /\ existing.connectivity.wifi = newData.connectivity.wifi
  /\ existing.connectivity.wifi_provider = newData.connectivity.wifi_provider
  /\ existing.cabin.physical_configuration = newData.cabin.physical_configuration
  /\ existing.operator.sub_fleet_code = newData.operator.sub_fleet_code

\* C5: each reconciliation leaves tracking.last_seen of every record greater
\* than or equal to its previous value.
C5_LastSeenNeverDecreases ==
  [][ pc = "process"
        => \A i \in 1..Len(catalog.aircraft) :
             catalog'.aircraft[i].tracking.last_seen
               >= catalog.aircraft[i].tracking.last_seen ]_vars

\* C6: when the record of a registration is exactly what the reconciliation of
\* this observation on this date made of it (the record CREATE built from it,
\* seen once, no history), reconciling the same observation for the same date
\* again adds no history entry and does not increment total_flights.
C6_ReobservationIsIdempotent ==
  [][ (/\ pc = "process"
       /\ CatalogIndex(CurReg) # 0
       /\ \E t \in 0..runs :
            catalog.aircraft[CatalogIndex(CurReg)] = transformToSchema(CurRaw, CurDate, t))
        => LET i == CatalogIndex(CurReg) IN
           /\ catalog'.aircraft[i].history = catalog.aircraft[i].history
           /\ catalog'.aircraft[i].tracking.total_flights
                = catalog.aircraft[i].tracking.total_flights ]_vars

\* C9: when the registration being reconciled on date D has no record in the
\* catalog, the outcome is NEW (CREATE) and counted as such; in a non-dry run
\* the catalog gains exactly one record, appended after the others, for that
\* registration, with first_seen = last_seen = D, total_flights = 1 and an empty
\* history, and every other record and catalog field is unchanged; in a dry run
\* the catalog is unchanged.
C9_Create ==
  [][ (pc = "process" /\ CatalogIndex(CurReg) = 0)
        => /\ lastOutcome' # Null
           /\ lastOutcome'[1].action = "NEW"
           /\ lastOutcome'[1].registration = CurReg
           /\ lastOutcome'[1].date = CurDate
           /\ totalNew' = totalNew + 1
           /\ totalUpdated' = totalUpdated
           /\ totalSeen' = totalSeen
           /\ IF dryRun THEN catalog' = catalog
              ELSE /\ Len(catalog'.aircraft) = Len(catalog.aircraft) + 1
                   /\ SubSeq(catalog'.aircraft, 1, Len(catalog.aircraft)) = catalog.aircraft
                   /\ [catalog' EXCEPT !.aircraft = catalog.aircraft] = catalog
                   /\ LET r == catalog'.aircraft[Len(catalog'.aircraft)] IN
                        /\ r.registration = CurReg
                        /\ r.tracking = [ first_seen |-> CurDate, last_seen |-> CurDate,
                                          total_flights |-> 1 ]
                        /\ r.history = <<>> ]_vars

\* a non-dry run created the record of a second registration
C9_Witness ==
  /\ lastOutcome # Null
  /\ lastOutcome[1].action = "NEW"
  /\ ~dryRun
  /\ Len(catalog.aircraft) = 2
  /\ catalog.aircraft[2].registration = lastOutcome[1].registration
  /\ catalog.aircraft[2].tracking.total_flights = 1

\* C10, as stated: when the record and the transformed observation agree on
\* the four tracked properties, the outcome is SEEN with no changes, last_seen
\* becomes the observation date, total_flights increases by 1 and every other
\* field of the record is unchanged.
C10_SeenMovesLastSeenOnly ==
  [][ (/\ pc = "process"
       /\ CatalogIndex(CurReg) # 0
       /\ TrackedAgree(catalog.aircraft[CatalogIndex(CurReg)], CurNew))
        => /\ lastOutcome' # Null
           /\ lastOutcome'[1].action = "SEEN"
           /\ lastOutcome'[1].changes = <<>>
           /\ catalog'.aircraft[CatalogIndex(CurReg)] =
                [ catalog.aircraft[CatalogIndex(CurReg)] EXCEPT
                    !.tracking.last_seen = CurDate,
                    !.tracking.total_flights = @ + 1 ] ]_vars

\* C10, amended: under the same condition the outcome is SEEN with no changes
\* and counted as seen; in a non-dry run last_seen becomes the observation
\* date, total_flights increases by 1 and every other field of the record, every
\* other record and every other catalog field is unchanged; in a dry run the
\* catalog is left entirely unchanged.
C10_SeenFrame ==
  [][ (/\ pc = "process"
       /\ CatalogIndex(CurReg) # 0
       /\ TrackedAgree(catalog.aircraft[CatalogIndex(CurReg)], CurNew))
        => /\ lastOutcome' # Null
           /\ lastOutcome'[1].action = "SEEN"
           /\ lastOutcome'[1].changes = <<>>
           /\ totalSeen' = totalSeen + 1
           /\ totalNew' = totalNew
           /\ totalUpdated' = totalUpdated
           /\ allChanges' = allChanges
           /\ IF dryRun THEN catalog' = catalog
              ELSE catalog' =
                [ catalog EXCEPT !.aircraft[CatalogIndex(CurReg)] =
                    [ @ EXCEPT !.tracking.last_seen = CurDate,
                               !.tracking.total_flights = @ + 1 ] ] ]_vars

\* a non-dry run saw again, on a later date, an aircraft whose cabin crew
\* employer had changed: the record keeps the employer it had
C10_Witness ==
  /\ lastOutcome # Null
  /\ lastOutcome[1].action = "SEEN"
  /\ ~dryRun
  /\ LET before == lastOutcome[1].before[1]
         after == catalog.aircraft[CatalogIndex(lastOutcome[1].registration)]
     IN /\ lastOutcome[1].observed.cabinCrewEmployer # before.operator.cabin_crew_employer
        /\ after.operator = before.operator
        /\ after.tracking.last_seen = lastOutcome[1].date
        /\ after.tracking.last_seen > before.tracking.last_seen
        /\ after.tracking.total_flights = before.tracking.total_flights + 1

(***************************************************************************)
(* History (SpecHistory)                                                   *)
(***************************************************************************)
\* the catalogs there are: the one in memory and the one in the file
Catalogs == {catalog} \cup (IF disk = Null THEN {} ELSE {disk[1]})

\* C7: from an empty catalog, after any sequence of runs and reconciliations,
\* no history of a record, in memory or in the catalog file, holds two entries
\* with the same (timestamp, property, old_value, new_value).
C7_HistoryEntriesAreUnique ==
  \A c \in Catalogs : \A k \in 1..Len(c.aircraft) :
    LET h == c.aircraft[k].history IN
    \A i, j \in 1..Len(h) :
      i # j => << h[i].timestamp, h[i].property, h[i].old_value, h[i].new_value >>
                 # << h[j].timestamp, h[j].property, h[j].old_value, h[j].new_value >>

\* an update one of whose changes was in the history already: the record was
\* merged and that change was not pushed a second time
C7_Witness ==
  /\ lastOutcome # Null
  /\ lastOutcome[1].action = "UPDATED"
  /\ LET before == lastOutcome[1].before[1]
         changes == lastOutcome[1].changes
         after == catalog.aircraft[CatalogIndex(lastOutcome[1].registration)]
     IN /\ \E n \in 1..Len(changes), i \in 1..Len(before.history) :
             before.history[i] = changes[n]
        /\ Len(after.history) < Len(before.history) + Len(changes)
        /\ after.connectivity # before.connectivity

(***************************************************************************)
(* Connectivity (SpecTransform)                                            *)
(***************************************************************************)
\* C8: for every combination of the wifi-enabled and high-speed flags of an
\* observation, the record created from it has: wifi-disabled, wifi = "none"
\* and no wifi_provider whatever the high-speed flag; wifi-enabled with
\* high-speed, wifi = "high-speed" and wifi_provider = "Starlink"; wifi-enabled
\* without high-speed, wifi = "low-speed" and no wifi_provider.
C8_ConnectivityClassification ==
  (lastOutcome # Null /\ lastOutcome[1].action = "NEW")
    => LET raw == lastOutcome[1].observed
           c == catalog.aircraft[CatalogIndex(lastOutcome[1].registration)].connectivity
       IN /\ raw.wifiEnabled # Some("Y")
               => (c.wifi = Some("none") /\ c.wifi_provider = Null)
          /\ (raw.wifiEnabled = Some("Y") /\ raw.highSpeedWifi = Some("Y"))
               => (c.wifi = Some("high-speed") /\ c.wifi_provider = Some("Starlink"))
          /\ (raw.wifiEnabled = Some("Y") /\ raw.highSpeedWifi # Some("Y"))
               => (c.wifi = Some("low-speed") /\ c.wifi_provider = Null)

(***************************************************************************)
(* Change detection (SpecHistory)                                          *)
(***************************************************************************)
TrackedProperties ==
  { "connectivity.wifi", "connectivity.wifi_provider",
    "cabin.physical_configuration", "operator.sub_fleet_code" }
\* the value a record has for a tracked property
TrackedValue(rec, property) ==
  CASE property = "connectivity.wifi" -> rec.connectivity.wifi
    [] property = "connectivity.wifi_provider" -> rec.connectivity.wifi_provider
    [] property = "cabin.physical_configuration" -> rec.cabin.physical_configuration
    [] property = "operator.sub_fleet_code" -> rec.operator.sub_fleet_code

\* C11: for the reconciliation of an existing record with a transformed
\* observation on date D, the change list holds exactly one entry for each
\* tracked property whose value differs (absent to a value and a value to
\* absent included), none for a tracked property whose value is equal and none
\* for anything else; each entry has timestamp D, the existing value as
\* old_value, the observed value as new_value and source "airline_api"; the
\* outcome is UPDATED iff the list is not empty.
C11_ChangeDetection ==
  (lastOutcome # Null /\ lastOutcome[1].before # Null)
    => LET o == lastOutcome[1]
           existing == o.before[1]
           newData == transformToSchema(o.observed, o.date, runs)
           changes == o.changes
       IN /\ \A p \in TrackedProperties :
               Cardinality({ n \in 1..Len(changes) : changes[n].property = p })
                 = IF TrackedValue(existing, p) # TrackedValue(newData, p) THEN 1 ELSE 0
          /\ \A n \in 1..Len(changes) :
               /\ changes[n].property \in TrackedProperties
               /\ changes[n].timestamp = o.date
               /\ changes[n].old_value = TrackedValue(existing, changes[n].property)
               /\ changes[n].new_value = TrackedValue(newData, changes[n].property)
               /\ changes[n].source = "airline_api"
          /\ (o.action = "UPDATED" <=> changes # <<>>)
          /\ (o.action = "SEEN" <=> changes = <<>>)

\* an update in which one property went from absent to a value, one from a
\* value to absent, and an earlier reconciliation that found one change only
C11_Witness ==
  /\ lastOutcome # Null
  /\ lastOutcome[1].action = "UPDATED"
  /\ LET changes == lastOutcome[1].changes
         before == lastOutcome[1].before[1]
     IN /\ \E n \in 1..Len(changes) :
             changes[n].old_value = Null /\ changes[n].new_value # Null
        /\ \E n \in 1..Len(changes) :
             changes[n].old_value # Null /\ changes[n].new_value = Null
        /\ Len(before.history) = 1

\* C12: every reconciliation of an existing record (UPDATED or SEEN) leaves
\* its first_seen and created_at as they were, and the history the record had
\* before is a prefix of the history it has after: no entry is altered,
\* reordered or removed.
C12_AppendOnly ==
  (lastOutcome # Null /\ lastOutcome[1].before # Null)
    => LET before == lastOutcome[1].before[1]
           after == catalog.aircraft[CatalogIndex(lastOutcome[1].registration)]
       IN /\ after.tracking.first_seen = before.tracking.first_seen
          /\ after.metadata.created_at = before.metadata.created_at
          /\ Len(after.history) >= Len(before.history)
          /\ SubSeq(after.history, 1, Len(before.history)) = before.history

\* an update, in a later run and on a later date than the creation, of a record
\* with a history: an entry was appended
C12_Witness ==
  /\ lastOutcome # Null
  /\ lastOutcome[1].action = "UPDATED"
  /\ LET before == lastOutcome[1].before[1]
         after == catalog.aircraft[CatalogIndex(lastOutcome[1].registration)]
     IN /\ before.history # <<>>
        /\ Len(after.history) > Len(before.history)
        /\ before.metadata.created_at < runs
        /\ before.tracking.first_seen < lastOutcome[1].date
        /\ after.metadata.updated_at = runs

(***************************************************************************)
(* The save (Spec)                                                         *)
(***************************************************************************)
\* C13: a run that reaches its end has written the catalog file iff it is not
\* a dry run and counted at least one aircraft as new, updated or seen; a dry
\* run never writes the catalog file, and no step of a dry run adds a record to
\* the in-memory catalog or changes one.
C13_PersistCondition ==
  /\ [](pc = "done"
         => (writes = 1 <=> (~dryRun /\ totalNew + totalUpdated + totalSeen > 0)))
  /\ [](pc = "done" => (writes = 0 <=> disk = diskAtStart))
  /\ [](dryRun => (writes = 0 /\ disk = diskAtStart))
  /\ [][ (dryRun /\ pc \in {"dates", "request", "process"}
                 /\ pc' \in {"dates", "request", "process"})
           => catalog' = catalog ]_vars

\* a dry run that counted an updated and a seen aircraft ended without writing
C13_Witness ==
  /\ pc = "done"
  /\ dryRun
  /\ totalUpdated > 0
  /\ totalSeen > 0
  /\ writes = 0
  /\ disk = diskAtStart
  /\ disk # Null

(***************************************************************************)
(* The saved catalog (SpecReliable)                                        *)
(***************************************************************************)
\* the sort key of a record: the rank of its type code ("" when absent), then
\* the rank of its registration
SortKey(a) ==
  << CodeRank(IF a.aircraft_type.iata_code = Null \/ a.aircraft_type.iata_code = Some("")
              THEN "" ELSE a.aircraft_type.iata_code[1]),
     RegRank(a.registration) >>
KeyLeq(k1, k2) == k1[1] < k2[1] \/ (k1[1] = k2[1] /\ k1[2] <= k2[2])

\* C14: every catalog file written by a run has aircraft_count equal to the
\* number of its aircraft records, and its aircraft are in ascending order of
\* (type code, absent taken as the empty string; then registration).
C14_SavedCatalogInvariant ==
  disk # Null
    => /\ disk[1].aircraft_count = Len(disk[1].aircraft)
       /\ \A i, j \in 1..Len(disk[1].aircraft) :
            i < j => KeyLeq(SortKey(disk[1].aircraft[i]), SortKey(disk[1].aircraft[j]))

\* a file of two records in which the record without a type code comes first,
\* before a registration that sorts lower, and which was created after it
C14_Witness ==
  /\ disk # Null
  /\ disk[1].aircraft_count = 2
  /\ disk[1].aircraft[1].registration = "F-HTYA"
  /\ disk[1].aircraft[1].aircraft_type.iata_code = Null
  /\ disk[1].aircraft[2].registration = "F-HBLA"
  /\ disk[1].aircraft[2].tracking.first_seen < disk[1].aircraft[1].tracking.first_seen


\* the registrations of a list of aircraft records
Registrations(aircraft) == { aircraft[i].registration : i \in 1..Len(aircraft) }

\* C15: in a non-bootstrap run every registration of the catalog file loaded at
\* the start is in the in-memory catalog at every point of the run up to its
\* end, and in the catalog file when the run has ended, whether or not the
\* registration was observed.
C15_NoDeletion ==
  (~bootstrap /\ diskAtStart # Null)
    => LET loaded == Registrations(diskAtStart[1].aircraft)
       IN /\ pc \in {"dates", "request", "process"}
               => loaded \subseteq Registrations(catalog.aircraft)
          /\ pc = "done" => /\ disk # Null
                            /\ loaded \subseteq Registrations(disk[1].aircraft)

\* a non-bootstrap run that loaded two registrations, observed one of them and
\* saved a catalog that still holds both
C15_Witness ==
  /\ pc = "done" /\ ~bootstrap /\ writes = 1
  /\ diskAtStart # Null
  /\ Cardinality(Registrations(diskAtStart[1].aircraft)) = 2
  /\ totalNew = 0 /\ totalUpdated + totalSeen = 1
  /\ Cardinality(Registrations(disk[1].aircraft)) = 2
  /\ disk # diskAtStart


(***************************************************************************)
(* The stale set (SpecStale)                                               *)
(***************************************************************************)
\* the registrations a stale block reported
ReportedStale(report) ==
  { report.staleAircraft[i].registration : i \in 1..Len(report.staleAircraft) }

\* C16: when a non-bootstrap run ends, a record of its catalog is reported
\* stale iff its registration was observed on no date of the run and its
\* last_seen is absent or strictly before now minus staleDays; nothing else is
\* reported; a bootstrap run reports no stale set.
C16_StaleSet ==
  [][ (pc = "dates" /\ pc' = "done")
        => IF bootstrap THEN staleReport' = Null
           ELSE /\ staleReport' # Null
                /\ ReportedStale(staleReport'[1]) \subseteq Registrations(catalog.aircraft)
                /\ \A i \in 1..Len(catalog.aircraft) :
                     LET a == catalog.aircraft[i]
                         observed == \E n \in 1..Len(seenAircraftAll) :
                                       seenAircraftAll[n].key = a.registration
                         lastSeen == a.tracking.last_seen
                         now == staleReport'[1].todayDate
                     IN a.registration \in ReportedStale(staleReport'[1])
                          <=> /\ ~observed
                              /\ \/ lastSeen = NoDate
                                 \/ lastSeen * HoursPerDay < now - staleDays * HoursPerDay
    ]_vars

\* the run with the default threshold of 30 days in which nothing was observed:
\* the record last seen 40 days before is reported, the one last seen 10 days
\* before is not
C16_Witness ==
  /\ pc = "done" /\ ~bootstrap /\ staleDays = DefaultStaleDays
  /\ totalNew + totalUpdated + totalSeen = 0
  /\ staleReport # Null
  /\ ReportedStale(staleReport[1]) = {"F-HBLA"}
  /\ \E i, j \in 1..Len(disk[1].aircraft) :
       /\ disk[1].aircraft[i].registration = "F-HBLA"
       /\ disk[1].aircraft[i].tracking.last_seen = today - 40
       /\ disk[1].aircraft[j].registration = "F-HTYA"
       /\ disk[1].aircraft[j].tracking.last_seen = today - 10


(***************************************************************************)
(* Bootstrap (SpecReliable)                                                *)
(***************************************************************************)
\* the registrations observed so far in the run
ObservedInRun == { seenAircraftAll[n].key : n \in 1..Len(seenAircraftAll) }

\* C17: a bootstrap run ignores the catalog file. Its in-memory catalog holds
\* only registrations observed in the run; an observation that is not a CREATE
\* meets a record this run created on an earlier date of its window; between
\* two dates of a run that saves, the catalog holds exactly the registrations
\* observed; and the file the run saves holds only records the run created,
\* one per CREATE.
C17_BootstrapStartsEmpty ==
  bootstrap
    => /\ pc \in {"dates", "request", "process"}
            => Registrations(catalog.aircraft) \subseteq ObservedInRun
       /\ (pc = "dates" /\ ~dryRun)
            => Registrations(catalog.aircraft) = ObservedInRun
       /\ (lastOutcome # Null /\ lastOutcome[1].action # "NEW")
            => /\ lastOutcome[1].before # Null
               /\ lastOutcome[1].before[1].metadata.created_at = runs
               /\ lastOutcome[1].before[1].tracking.first_seen < lastOutcome[1].date
               /\ \E d \in 1..Len(datesToProcess) :
                    datesToProcess[d] = lastOutcome[1].before[1].tracking.first_seen
       /\ (lastOutcome # Null /\ lastOutcome[1].date = datesToProcess[1])
            => lastOutcome[1].action = "NEW"
       /\ (pc = "done" /\ writes = 1)
            => /\ \A i \in 1..Len(disk[1].aircraft) :
                    disk[1].aircraft[i].metadata.created_at = runs
               /\ Cardinality(Registrations(disk[1].aircraft)) = totalNew

\* a bootstrap run that found a file of two registrations, observed one of
\* them and saved a catalog of that one
C17_Witness ==
  /\ pc = "done" /\ bootstrap /\ writes = 1
  /\ diskAtStart # Null
  /\ Registrations(diskAtStart[1].aircraft) = {"F-HBLA", "F-HTYA"}
  /\ Registrations(disk[1].aircraft) = {"F-HBLA"}
  /\ totalNew = 1 /\ totalSeen + totalUpdated = 1


(***************************************************************************)
(* Cabin parsing (SpecTransform)                                           *)
(***************************************************************************)
\* the letters of each class, and the letters a token may start with
CabinLetters(class) ==
  CASE class = "first" -> {"P", "F"}
    [] class = "business" -> {"J", "C"}
    [] class = "premium_economy" -> {"W", "S"}
    [] class = "economy" -> {"Y", "M"}
CabinClasses == {"first", "business", "premium_economy", "economy"}
TokenLetters == UNION { CabinLetters(class) : class \in CabinClasses } \cup {"A", "B", "D", "T"}

\* the number of digits that follow position i
RunLen(cs, i) ==
  CHOOSE n \in 0..(Len(cs) - i) :
    /\ \A j \in 1..n : cs[i + j] \in Digits
    /\ (i + n = Len(cs) \/ cs[i + n + 1] \notin Digits)

\* the number a run of decimal digits writes
DecimalValue(ds) ==
  SeqSum([ j \in 1..Len(ds) |-> DigitVal(ds[j]) * 10 ^ (Len(ds) - j) ])

\* cs is a non-empty run of tokens, each a letter and a count of 2 or 3 digits
IsTokenConfig(cs) ==
  /\ cs # <<>>
  /\ \A i \in 1..Len(cs) : cs[i] \in TokenLetters \cup Digits
  /\ cs[1] \in TokenLetters
  /\ \A i \in 1..Len(cs) : cs[i] \in TokenLetters => RunLen(cs, i) \in {2, 3}

\* the seats the tokens of cs give a class
ExpectedCount(cs, class) ==
  SeqSum([ i \in 1..Len(cs) |->
             IF cs[i] \in CabinLetters(class)
             THEN DecimalValue(SubSeq(cs, i + 1, i + RunLen(cs, i))) ELSE 0 ])
ExpectedTotal(cs) ==
  ExpectedCount(cs, "first") + ExpectedCount(cs, "business")
    + ExpectedCount(cs, "premium_economy") + ExpectedCount(cs, "economy")

\* no class letter of cs is followed by two digits
HasNoToken(cs) ==
  ~ \E i \in 1..Len(cs), class \in CabinClasses :
      /\ cs[i] \in CabinLetters(class)
      /\ i + 2 <= Len(cs) /\ cs[i + 1] \in Digits /\ cs[i + 2] \in Digits

\* the tokens of a token configuration, with the positions they stand at
TokenAt(cs, i) == << cs[i], SubSeq(cs, i + 1, i + RunLen(cs, i)) >>
TokenPositions(cs) == { i \in 1..Len(cs) : cs[i] \in TokenLetters }
SameTokens(cs, ds) ==
  \A u \in { TokenAt(cs, i) : i \in TokenPositions(cs) }
             \cup { TokenAt(ds, i) : i \in TokenPositions(ds) } :
    Cardinality({ i \in TokenPositions(cs) : TokenAt(cs, i) = u })
      = Cardinality({ i \in TokenPositions(ds) : TokenAt(ds, i) = u })

\* the characters of the configuration of the last observation, and the cabin
\* of the record created from it
ObservedConfig ==
  LET config == lastOutcome[1].observed.physicalPaxConfiguration
  IN IF config = Null THEN <<>> ELSE Chars(config[1])
CreatedCabin == catalog.aircraft[CatalogIndex(lastOutcome[1].registration)].cabin

\* what C18 says of the four classes, in both of its cases
CabinClassesAsClaimed ==
  /\ IsTokenConfig(ObservedConfig)
       => \A class \in CabinClasses :
            CreatedCabin.classes[class] = ExpectedCount(ObservedConfig, class)
  /\ HasNoToken(ObservedConfig)
       => /\ \A class \in CabinClasses : CreatedCabin.classes[class] = 0
          /\ CreatedCabin.total_seats = Null

\* C18 as stated: the record created from a configuration made of tokens has
\* in each class the sum of the counts of the letters of that class and has
\* total_seats equal to the sum of the four classes; the record created from an
\* empty configuration or one without any token has four classes of 0 and no
\* total_seats.
C18_CabinParsingAsStated ==
  (lastOutcome # Null /\ lastOutcome[1].action = "NEW")
    => /\ CabinClassesAsClaimed
       /\ IsTokenConfig(ObservedConfig)
            => CreatedCabin.total_seats = Some(ExpectedTotal(ObservedConfig))

\* C18, amended: as stated, except that total_seats is the sum of the four
\* classes when that sum is positive and absent when it is 0; the classes of
\* two token configurations with the same tokens in another order are equal.
C18_CabinParsing ==
  (lastOutcome # Null /\ lastOutcome[1].action = "NEW")
    => /\ CabinClassesAsClaimed
       /\ IsTokenConfig(ObservedConfig)
            => /\ CreatedCabin.total_seats
                    = IF ExpectedTotal(ObservedConfig) > 0
                      THEN Some(ExpectedTotal(ObservedConfig)) ELSE Null
               /\ \A other \in CabinConfigs :
                    (IsTokenConfig(Chars(other)) /\ SameTokens(ObservedConfig, Chars(other)))
                      => parseCabinConfig(Some(other)) = CreatedCabin.classes

\* the tokens of the example in another order: 34 business, 24 premium
\* economy, 266 economy, 324 seats
C18_Witness ==
  /\ lastOutcome # Null /\ lastOutcome[1].action = "NEW"
  /\ lastOutcome[1].observed.physicalPaxConfiguration = Some("Y266J034W024")
  /\ CreatedCabin.classes
       = [first |-> 0, business |-> 34, premium_economy |-> 24, economy |-> 266]
  /\ CreatedCabin.total_seats = Some(324)


(***************************************************************************)
(* The merge of an UPDATE (SpecHistory)                                    *)
(***************************************************************************)
\* C19: after an UPDATE of a non-dry run the record has the connectivity, the
\* operator, the aircraft_type and the cabin's physical_configuration,
\* total_seats and classes of the transformed observation, last_seen equal to
\* the observation date and total_flights one more than before; its
\* registration, status, cabin.saleable_configuration and
\* cabin.freight_configuration are as before.
C19_UpdateMerge ==
  (lastOutcome # Null /\ lastOutcome[1].action = "UPDATED" /\ ~dryRun)
    => LET o == lastOutcome[1]
           before == o.before[1]
           after == catalog.aircraft[CatalogIndex(o.registration)]
           observation == transformToSchema(o.observed, o.date, runs)
       IN /\ after.connectivity = observation.connectivity
          /\ after.operator = observation.operator
          /\ after.aircraft_type = observation.aircraft_type
          /\ after.cabin.physical_configuration = observation.cabin.physical_configuration
          /\ after.cabin.total_seats = observation.cabin.total_seats
          /\ after.cabin.classes = observation.cabin.classes
          /\ after.tracking.last_seen = o.date
          /\ after.tracking.total_flights = before.tracking.total_flights + 1
          /\ after.registration = before.registration
          /\ after.status = before.status
          /\ after.cabin.saleable_configuration = before.cabin.saleable_configuration
          /\ after.cabin.freight_configuration = before.cabin.freight_configuration

\* an UPDATE whose observation differs from the record in the aircraft type,
\* which is not tracked, and in the cabin
C19_Witness ==
  /\ lastOutcome # Null /\ lastOutcome[1].action = "UPDATED" /\ ~dryRun
  /\ LET o == lastOutcome[1]
         after == catalog.aircraft[CatalogIndex(o.registration)]
     IN /\ o.before[1].aircraft_type # after.aircraft_type
        /\ o.before[1].cabin.classes # after.cabin.classes
        /\ o.before[1].tracking.last_seen # o.date
        /\ after.tracking.total_flights = 3


(***************************************************************************)
(* Counting across the dates of a run (SpecWindow)                         *)
(***************************************************************************)
\* the dates on which the run observed a registration
ObservedDates(reg) == { p[2] : p \in { q \in observedOn : q[1] = reg } }
Earliest(dates) == CHOOSE d \in dates : \A e \in dates : d <= e
Latest(dates) == CHOOSE d \in dates : \A e \in dates : d >= e

\* the catalog of the run: the one in memory, or the file once the run ended
RunCatalog ==
  IF pc = "done" THEN (IF writes = 1 THEN disk[1].aircraft ELSE <<>>)
  ELSE catalog.aircraft

\* C20: in a non-dry bootstrap run, which starts from an empty catalog, once
\* all the observations of a date are reconciled every registration observed
\* so far has exactly one record, with first_seen its earliest observed date,
\* last_seen its latest and total_flights the number of dates it was observed
\* on, and as many records were created as registrations were observed; while
\* a date is being reconciled total_flights is that number or one less. The
\* same holds of the file when the run has ended.
C20_CrossDateCounting ==
  (bootstrap /\ ~dryRun /\ pc \in {"dates", "request", "process", "done"})
    => /\ \A reg \in { p[1] : p \in observedOn } :
            LET dates == ObservedDates(reg)
                recs == { i \in 1..Len(RunCatalog) : RunCatalog[i].registration = reg }
            IN IF pc = "process"
               THEN /\ Cardinality(recs) <= 1
                    /\ \A i \in recs :
                         /\ RunCatalog[i].tracking.first_seen = Earliest(dates)
                         /\ RunCatalog[i].tracking.total_flights
                              \in {Cardinality(dates) - 1, Cardinality(dates)}
                         /\ RunCatalog[i].tracking.total_flights >= 1
               ELSE /\ Cardinality(recs) = 1
                    /\ \A i \in recs :
                         /\ RunCatalog[i].tracking.first_seen = Earliest(dates)
                         /\ RunCatalog[i].tracking.last_seen = Latest(dates)
                         /\ RunCatalog[i].tracking.total_flights = Cardinality(dates)
       /\ pc # "process"
            => /\ totalNew = Cardinality({ p[1] : p \in observedOn })
               /\ Len(RunCatalog) = totalNew

\* a run over three days saved a registration observed on the first and on the
\* third day, not on the second, and another observed once
C20_Witness ==
  /\ pc = "done" /\ bootstrap /\ ~dryRun /\ writes = 1
  /\ Cardinality(ObservedDates("F-HBLA")) = 2
  /\ Latest(ObservedDates("F-HBLA")) - Earliest(ObservedDates("F-HBLA")) = 2
  /\ Cardinality(ObservedDates("F-HTYA")) = 1
  /\ \E i \in 1..Len(disk[1].aircraft) :
       /\ disk[1].aircraft[i].registration = "F-HBLA"
       /\ disk[1].aircraft[i].tracking.total_flights = 2
       /\ disk[1].aircraft[i].tracking.last_seen
            = disk[1].aircraft[i].tracking.first_seen + 2


(***************************************************************************)
(* Registrations and the lookup (Spec)                                     *)
(***************************************************************************)
\* no two records of a list of aircraft have the same registration
UniqueRegistrations(aircraft) ==
  \A i, j \in 1..Len(aircraft) :
    aircraft[i].registration = aircraft[j].registration => i = j

\* C24: in a non-dry run that started from a catalog without two records of one
\* registration, at every point of the processing of the dates the catalog has
\* at most one record per registration, and the lookup has one entry per
\* registration of the catalog, which names the record of that registration.
C24_RegistrationUniqueness ==
  (/\ ~dryRun
   /\ pc \in {"dates", "request", "process"}
   /\ (diskAtStart # Null => UniqueRegistrations(diskAtStart[1].aircraft)))
    => /\ UniqueRegistrations(catalog.aircraft)
       /\ \A m, n \in 1..Len(aircraftByReg) :
            aircraftByReg[m].key = aircraftByReg[n].key => m = n
       /\ { aircraftByReg[n].key : n \in 1..Len(aircraftByReg) }
            = Registrations(catalog.aircraft)
       /\ \A n \in 1..Len(aircraftByReg) :
            /\ aircraftByReg[n].value \in 1..Len(catalog.aircraft)
            /\ catalog.aircraft[aircraftByReg[n].value].registration = aircraftByReg[n].key

\* a non-dry run that loaded two records and updated one of them; and a run
\* that started from nothing and created two
C24_Witness ==
  /\ ~dryRun /\ pc = "dates" /\ lastOutcome # Null
  /\ Len(catalog.aircraft) = 2 /\ Len(aircraftByReg) = 2
  /\ \/ (diskAtStart # Null /\ ~bootstrap /\ lastOutcome[1].action = "UPDATED")
     \/ (diskAtStart = Null /\ totalNew = 2 /\ totalSeen + totalUpdated > 0)


(***************************************************************************)
(* The history and the record (SpecHistory)                                *)
(***************************************************************************)
\* the positions of the entries of a history that are about a property
EntriesOf(history, property) ==
  { n \in 1..Len(history) : history[n].property = property }
LastOf(positions) == CHOOSE n \in positions : \A m \in positions : m <= n

\* C22: from an empty catalog, after any sequence of non-dry runs, for every
\* record, in memory or in the catalog file, and every tracked property with
\* an entry in the record's history, the new_value of the last of these entries
\* is the value the record has for the property.
C22_HistoryReflectsCurrentState ==
  \A c \in Catalogs : \A k \in 1..Len(c.aircraft) :
    \A property \in TrackedProperties :
      LET rec == c.aircraft[k]
          positions == EntriesOf(rec.history, property)
      IN positions # {}
           => rec.history[LastOf(positions)].new_value = TrackedValue(rec, property)


(***************************************************************************)
(* The dry run as a preview (SpecPreview)                                  *)
(***************************************************************************)
\* a non-dry run has processed its last date, and a dry run with the same
\* arguments, on the same catalog file and with the same responses ended before
PreviewedRunEnds ==
  /\ pc = "dates" /\ dateIdx > Len(datesToProcess) /\ ~dryRun
  /\ replay # Null /\ replay[1].report # Null
  /\ replay[1].report[1].bootstrap = bootstrap
  /\ replay[1].report[1].dates = datesToProcess
  /\ replay[1].report[1].diskAtStart = diskAtStart

\* C23: the dry run reported the counts of new, updated and seen aircraft and
\* the list of change entries that the non-dry run with the same arguments, on
\* the same catalog and with the same API responses reports, for a single-day
\* and for a bootstrap run.
C23_DryRunFidelity ==
  PreviewedRunEnds
    => /\ replay[1].report[1].totalNew = totalNew
       /\ replay[1].report[1].totalUpdated = totalUpdated
       /\ replay[1].report[1].totalSeen = totalSeen
       /\ replay[1].report[1].changes = allChanges


\* C21: any two consecutive requests of a process, retries after 403/429 and
\* requests under another key included, leave the throttle at least
\* RequestDelay ms apart, and at most one request is in flight at a time.
C21_Throttling ==
  /\ lastGap # Null => lastGap[1] >= RequestDelay
  /\ inFlight \in {0, 1}

\* a retry after a 403/429 is in flight under another key than the request
\* before it, released exactly RequestDelay after that one
C21_Witness ==
  /\ pc = "fetch"
  /\ inFlight = 1
  /\ retryCount > 0
  /\ attempts # <<>>
  /\ currentKeyIndex # attempts[Len(attempts)]
  /\ lastGap = Some(RequestDelay)

====
